---- MODULE Spec2Model ----
(***************************************************************************)
(* Retrieval layer of the multimodal RAG service: the in-memory vector     *)
(* index, VectorDBService (construction, upsert, query) and the RAG        *)
(* pipeline orchestrator, translated from backend/app/services.            *)
(***************************************************************************)
EXTENDS Integers, Sequences, FiniteSets, TLC

\* ------------------------------------------------------------------ bounds
\* Largest number of entries the index holds in a checked run.
MaxEntries == 2

\* ------------------------------------------------------------------ values
\* Python's None, and the empty string: both are falsy.
None == "<None>"
Empty == ""
Falsy(x) == x \in {None, Empty}

\* KBType.GKB.value / KBType.SKB.value
GKB == "gkb"
SKB == "skb"
KBTypes == {GKB, SKB}

\* Authenticated callers (their e-mail is the SKB context id).
Users == {"a@x", "b@x"}
\* What a caller of the service may pass as context_id.
ContextArgs == Users \cup {None, Empty}

\* Embedding vectors, abstracted to two points of the embedding space.
Vectors == {"v1", "v2"}
\* The vector a query is made with: stored entries hold it, or the other one.
QueryVectors == {"v1"}

\* Strings that are taken apart (locators, object names) are sequences of
\* tokens: the delimiters "/", "?", "#" and the runs of characters between.
Bucket == <<"bkt">>
\* f"s3://{bucket_name}/{object_name}"
S3Uri(bucket_name, object_name) == <<"s3:", "/", "/">> \o bucket_name \o <<"/">> \o object_name

ImageObject == <<"images", "/", "gkb", "/", "p.png">>
BlobT1 == <<"blob:", "/", "/", "t1">>

\* What is ingested: an embedding with the locator of its blob.
Items ==
    { [vector |-> "v1", source_type |-> "text",  source_id |-> BlobT1],
      [vector |-> "v2", source_type |-> "image", source_id |-> S3Uri(Bucket, ImageObject)] }

\* The (kb_type, context_id) pairs a caller may pass: SKB with every kind of
\* context id, GKB without one and with one.
ScopeArgs == {<<SKB, c>> : c \in ContextArgs} \cup {<<GKB, None>>, <<GKB, Empty>>, <<GKB, "a@x">>}

\* top_k values a caller may pass: negative, zero, and up to the store's size.
TopKs == -1 .. MaxEntries

Min(a, b) == IF a < b THEN a ELSE b
Max(a, b) == IF a > b THEN a ELSE b

\* ------------------------------------------------------- _InMemoryIndex
\* dict.get(k): the value, or None when the key is missing.
MetaGet(meta, k) == IF k \in DOMAIN meta THEN meta[k] ELSE None

\* The metadata check of _InMemoryIndex.query: every key of the filter must
\* compare equal (an empty filter checks nothing).
FilterMatches(meta, filter_query) ==
    \A k \in DOMAIN filter_query : MetaGet(meta, k) = filter_query[k]

\* list(...)[:top_k] on a list of length Len(s), Python slice semantics.
PySlice(s, top_k) ==
    IF top_k >= 0 THEN SubSeq(s, 1, Min(top_k, Len(s)))
                  ELSE SubSeq(s, 1, Max(0, Len(s) + top_k))

\* One match dictionary; the score is the constant 1.0.
MatchOf(e) == [id |-> e.id, score |-> 1, metadata |-> e.metadata]

RECURSIVE MapMatch(_)
MapMatch(s) == IF s = <<>> THEN <<>> ELSE <<MatchOf(Head(s))>> \o MapMatch(Tail(s))

\* A plausible slip: slice, then no filter at all.
InMemoryQueryNoFilter(st, vector, filter_query, top_k) ==
    MapMatch(PySlice(st, top_k))

\* _InMemoryIndex.query: the first top_k stored items are taken, and of
\* those the ones whose metadata passes the filter are returned.
InMemoryQuery(st, vector, filter_query, top_k) ==
    MapMatch(SelectSeq(PySlice(st, top_k),
                       LAMBDA e : FilterMatches(e.metadata, filter_query)))

\* Position of id vid in the insertion-ordered dict, 0 when absent.
IndexOfId(st, vid) ==
    IF \E i \in 1..Len(st) : st[i].id = vid
    THEN CHOOSE i \in 1..Len(st) : st[i].id = vid
    ELSE 0

\* A plausible slip: the dict is rebound to the new entry alone.
InMemoryUpsertRebindsStore(st, vid, vec, meta) ==
    <<[id |-> vid, vector |-> vec, metadata |-> meta]>>

\* _InMemoryIndex.upsert of one (vid, vec, meta) tuple: self._store[vid] = ...
\* (an existing key keeps its position, a new key goes last).
InMemoryUpsert(st, vid, vec, meta) ==
    LET e == [id |-> vid, vector |-> vec, metadata |-> meta]
        i == IndexOfId(st, vid)
    IN IF i = 0 THEN Append(st, e) ELSE [st EXCEPT ![i] = e]

\* One dict assignment self._store[vid] = item, item a dictionary that may
\* or may not have each of the keys "vector" and "metadata".
DictSetItem(st, vid, item) ==
    LET e == [k \in {"id"} \cup DOMAIN item |-> IF k = "id" THEN vid ELSE item[k]]
        i == IndexOfId(st, vid)
    IN IF i = 0 THEN Append(st, e) ELSE [st EXCEPT ![i] = e]

\* item.get("metadata", {})
ItemMetadata(item) == IF "metadata" \in DOMAIN item THEN item.metadata ELSE <<>>

\* A plausible slip: the entry is stored empty-handed and completed by a
\* second assignment.
StoreStepsTwoWrites(vec, meta) ==
    << [vector |-> vec], [vector |-> vec, metadata |-> meta] >>

\* The values the loop body of upsert puts under self._store[vid], in
\* order: one assignment of the complete dictionary.
StoreSteps(vec, meta) == << [vector |-> vec, metadata |-> meta] >>

\* Parameter names of _InMemoryIndex.query and the required ones.
InMemoryQueryParams == {"vector", "filter_query", "top_k", "include_metadata"}
InMemoryQueryRequired == {"vector", "filter_query"}
\* Parameter names of _InMemoryIndex.upsert.
InMemoryUpsertParams == {"vectors"}

\* Python keyword-argument binding: every keyword must name a parameter and
\* every parameter without default must be given.
Binds(kwargs, params, required) == kwargs \subseteq params /\ required \subseteq kwargs


\* ------------------------------------------------------- remote index
\* Similarity the remote backend ranks by (cosine, abstracted): an entry
\* holding the query vector itself scores higher than any other.
Similarity(vec, q) == IF vec = q THEN 2 ELSE 1

RemoteMatchOf(e, q) == [id |-> e.id, score |-> Similarity(e.vector, q), metadata |-> e.metadata]

RECURSIVE MapRemoteMatch(_, _)
MapRemoteMatch(s, q) ==
    IF s = <<>> THEN <<>> ELSE <<RemoteMatchOf(Head(s), q)>> \o MapRemoteMatch(Tail(s), q)

\* The remote backend's query: the entries passing the metadata filter,
\* ranked by descending similarity, cut to top_k.
RemoteQuery(st, vector, filter, top_k) ==
    LET pass == SelectSeq(st, LAMBDA e : FilterMatches(e.metadata, filter))
        near == SelectSeq(pass, LAMBDA e : Similarity(e.vector, vector) = 2)
        far  == SelectSeq(pass, LAMBDA e : Similarity(e.vector, vector) = 1)
        ranked == near \o far
    IN MapRemoteMatch(SubSeq(ranked, 1, Min(top_k, Len(ranked))), vector)

\* The remote backend refuses a top_k that is not a positive integer.
RemoteAccepts(top_k) == top_k >= 1

\* The remote backend's upsert of one entry.
RemoteUpsert(st, vid, vec, meta) == InMemoryUpsert(st, vid, vec, meta)

\* ------------------------------------------------------- VectorDBService
\* Keyword arguments of the self.index.query(...) call in VectorDBService.query
ServiceQueryKwargs == {"vector", "filter", "top_k", "include_metadata"}
\* Keyword arguments of the self.index.upsert(...) call in VectorDBService.upsert
ServiceUpsertKwargs == {"vectors"}

\* A plausible slip: the SKB check left out of upsert.
UpsertRejectsNever(kb_type, context_id) == FALSE

\* upsert's guard: SKB without a context id raises ValueError.
UpsertRejects(kb_type, context_id) == kb_type = SKB /\ Falsy(context_id)

\* A plausible slip: every entry is tagged GKB.
UpsertMetadataAllGkb(kb_type, source_type, source_id, context_id) ==
    [kb_type |-> GKB, source_type |-> source_type, source_id |-> source_id,
     context_id |-> IF Falsy(context_id) THEN "gkb_default" ELSE context_id]

\* The metadata upsert stores: context_id or "gkb_default".
UpsertMetadata(kb_type, source_type, source_id, context_id) ==
    [kb_type |-> kb_type, source_type |-> source_type, source_id |-> source_id,
     context_id |-> IF Falsy(context_id) THEN "gkb_default" ELSE context_id]

\* A plausible slip: a context id that is given is always put into the filter.
QueryFilterContextWhenGiven(kb_type, context_id) ==
    IF ~Falsy(context_id)
    THEN [kb_type |-> kb_type, context_id |-> context_id]
    ELSE [kb_type |-> kb_type]

\* A plausible slip: the context id is put into the filter for GKB too.
QueryFilterAlwaysContext(kb_type, context_id) ==
    [kb_type |-> kb_type, context_id |-> context_id]

\* A plausible slip: the context id never added to the filter.
QueryFilterNoContext(kb_type, context_id) == [kb_type |-> kb_type]

\* The filter query builds: kb_type always, context_id for SKB when truthy.
QueryFilter(kb_type, context_id) ==
    IF kb_type = SKB /\ ~Falsy(context_id)
    THEN [kb_type |-> kb_type, context_id |-> context_id]
    ELSE [kb_type |-> kb_type]

\* self.index.query(vector=..., filter=..., top_k=..., include_metadata=True)
\* on the bound index. The in-memory variant is a Python method, bound by
\* parameter name; the remote backend refuses a top_k below 1.
IndexQueryCall(kind, st, vector, filter, top_k) ==
    IF kind = "memory"
    THEN IF Binds(ServiceQueryKwargs, InMemoryQueryParams, InMemoryQueryRequired)
         THEN [outcome |-> "ok", matches |-> InMemoryQuery(st, vector, filter, top_k)]
         ELSE [outcome |-> "TypeError", matches |-> <<>>]
    ELSE IF RemoteAccepts(top_k)
         THEN [outcome |-> "ok", matches |-> RemoteQuery(st, vector, filter, top_k)]
         ELSE [outcome |-> "RemoteError", matches |-> <<>>]

\* VectorDBService.query: build the filter, issue the index query, return
\* results.get('matches', []). No argument is validated before the call.
ServiceQuery(kind, st, vector, kb_type, context_id, top_k) ==
    LET r == IndexQueryCall(kind, st, vector, QueryFilter(kb_type, context_id), top_k)
    IN [outcome |-> r.outcome, issued |-> TRUE, matches |-> r.matches,
        filter |-> QueryFilter(kb_type, context_id)]

\* self.index.upsert(vectors=[(vector_id, vector, metadata)]) on the bound index.
IndexUpsertCall(kind, st, vid, vec, meta) ==
    IF kind = "memory"
    THEN IF Binds(ServiceUpsertKwargs, InMemoryUpsertParams, InMemoryUpsertParams)
         THEN [outcome |-> "ok", store |-> InMemoryUpsert(st, vid, vec, meta)]
         ELSE [outcome |-> "TypeError", store |-> st]
    ELSE [outcome |-> "ok", store |-> RemoteUpsert(st, vid, vec, meta)]

\* VectorDBService.upsert with vid the fresh uuid4: the SKB guard, then the
\* metadata, then the index write; the id is returned when nothing raised.
ServiceUpsert(kind, st, vid, vec, kb_type, source_type, source_id, context_id) ==
    IF UpsertRejects(kb_type, context_id)
    THEN [outcome |-> "ValueError", store |-> st, id |-> 0]
    ELSE LET r == IndexUpsertCall(kind, st, vid, vec,
                      UpsertMetadata(kb_type, source_type, source_id, context_id))
         IN [outcome |-> r.outcome, store |-> r.store,
             id |-> IF r.outcome = "ok" THEN vid ELSE 0]

\* ------------------------------------------- VectorDBService.__init__
\* The environment construction runs in: what the module-level _pinecone is
\* ("new": has a Pinecone class; "old": module-level init; "adapter": the
\* import failed and _pinecone is an _InMemoryPineconeAdapter), whether
\* PINECONE_API_KEY is non-empty, whether a ServerlessSpec class is found, and
\* whether PINECONE_ENVIRONMENT / AWS_REGION are unset, name a gcp
\* environment, or name an AWS region.
Environments ==
    [pinecone : {"new", "old", "adapter"}, api_key : BOOLEAN, serverless : BOOLEAN,
     env_region : {"unset", "gcp", "aws"}, aws_region : {"unset", "gcp", "aws"}]

\* Client resolution: the Pinecone(...) instance, the initialised module, or
\* None on a missing key or a raised exception; None becomes a fresh
\* _InMemoryPineconeAdapter. "real" is a client of the remote backend.
ResolveClient(e, raises) ==
    LET resolved ==
          IF e.pinecone = "new" /\ e.api_key
          THEN IF raises THEN "None" ELSE "real"
          ELSE IF e.api_key
               THEN IF raises THEN "None"
                    ELSE IF e.pinecone = "old" THEN "real" ELSE "adapter"
               ELSE "None"
    IN IF resolved = "None" THEN "adapter" ELSE resolved

\* Whether the client-creation call can raise at all: _InMemoryPineconeAdapter
\* .init is a no-op, and without a key no call is made.
ClientCallCanRaise(e) == e.api_key /\ e.pinecone \in {"new", "old"}

\* list_indexes(): whether index_name is in the listing. The adapter built
\* here holds no index yet; a failed listing counts as an empty one.
ListingHasIndex(client, listing) ==
    IF client = "adapter" THEN FALSE ELSE listing = "present"

\* The region and cloud picked for ServerlessSpec.
ServerlessRegion(e) ==
    IF e.env_region = "gcp" THEN "gcp-starter"
    ELSE IF e.aws_region = "aws" THEN "aws_region"
    ELSE "us-west-2"
ServerlessCloud(e) == IF ServerlessRegion(e) = "gcp-starter" THEN "gcp" ELSE "aws"

\* Index creation, when index_name is not listed. first: what the
\* create_index(metadata_config=...) call does ("ok", "TypeError", "raise");
\* second: what the ServerlessSpec attempt does ("ok", "raise").
\* The result is whether an index was created and which attempt was the last.
CreateResult(e, client, first, second) ==
    IF client = "adapter" \/ first = "ok"
    THEN [created |-> "ok", via |-> "metadata_config", raised |-> FALSE]
    ELSE IF first = "TypeError"
         THEN IF e.serverless
              THEN [created |-> IF second = "ok" THEN "ok" ELSE "failed",
                    via |-> ServerlessCloud(e), raised |-> FALSE]
              ELSE [created |-> "failed", via |-> "none", raised |-> FALSE]
         ELSE [created |-> "failed", via |-> "metadata_config", raised |-> FALSE]

\* A plausible slip: the exception of a failed handle acquisition escapes.
HandleResultNoFallback(client, raises) ==
    IF client = "adapter" THEN [index |-> "memory", raised |-> FALSE]
    ELSE IF raises THEN [index |-> "unbound", raised |-> TRUE]
         ELSE [index |-> "remote", raised |-> FALSE]

\* Handle acquisition: client.Index(index_name); when that raises, the
\* adapter's index or a new _InMemoryIndex is bound instead.
HandleResult(client, raises) ==
    IF client = "adapter" THEN [index |-> "memory", raised |-> FALSE]
    ELSE IF raises THEN [index |-> "memory", raised |-> FALSE]
         ELSE [index |-> "remote", raised |-> FALSE]

\* ------------------------------------------------------- RAG pipeline
TextObject == <<"text", "/", "gkb", "/", "h1.txt">>

\* The fixed top_k of the pipeline's retrieval.
PipelineTopK == 3

\* The sentinel GenerativeService returns when it has no model.
NotConfigured == "Generative AI service is not configured."

\* create_text_embedding, on the queries a run is started with.
TextEmbedding(query) == IF query = "q1" THEN "v1" ELSE "v2"

\* A plausible slip: the embedder's exception swallowed, the run goes on
\* without a vector.
EmbedOutcomeSwallowed(query, raises) ==
    IF raises THEN [outcome |-> "ok", query_vector |-> None]
    ELSE [outcome |-> "ok", query_vector |-> TextEmbedding(query)]

\* The first statement of run_pipeline: the embedder's vector, or its
\* exception, which nothing in run_pipeline catches.
EmbedOutcome(query, raises) ==
    IF raises THEN [outcome |-> "raise", query_vector |-> None]
    ELSE [outcome |-> "ok", query_vector |-> TextEmbedding(query)]

\* source_id.startswith("s3://"), on a token sequence.
StartsWithS3(source_id) ==
    /\ Len(source_id) >= 3
    /\ source_id[1] = "s3:" /\ source_id[2] = "/" /\ source_id[3] = "/"

\* Position of the first token of seq that is in delims, Len(seq)+1 if none.
FirstDelim(seq, delims) ==
    IF \E i \in 1..Len(seq) : seq[i] \in delims
    THEN CHOOSE i \in 1..Len(seq) :
            seq[i] \in delims /\ \A j \in 1..(i - 1) : seq[j] \notin delims
    ELSE Len(seq) + 1

\* urlparse(source_id).path of an s3:// locator: what follows the network
\* location, up to a "?" or "#".
UrlPath(source_id) ==
    LET rest == SubSeq(source_id, 4, Len(source_id))
        tail == SubSeq(rest, FirstDelim(rest, {"/", "?", "#"}), Len(rest))
    IN SubSeq(tail, 1, FirstDelim(tail, {"?", "#"}) - 1)

\* str.lstrip('/')
RECURSIVE LStripSlash(_)
LStripSlash(path) ==
    IF path # <<>> /\ Head(path) = "/" THEN LStripSlash(Tail(path)) ELSE path

\* Whether the loop body skips a match before any fetch:
\* not source_id or not source_id.startswith("s3://")
SkipsMatch(metadata) ==
    LET source_id == MetaGet(metadata, "source_id")
    IN source_id = None \/ source_id = <<>> \/ ~StartsWithS3(source_id)

\* The object name the loop body asks the blob store for.
ObjectKeyOf(metadata) == LStripSlash(UrlPath(metadata.source_id))

\* A plausible slip: a new context item is put in front of the others.
AddContextItemInFront(context_for_llm, source_type, content) ==
    <<[type |-> source_type, content |-> content]>> \o context_for_llm

\* context_for_llm.append({"type": ..., "content": ...})
AddContextItem(context_for_llm, source_type, content) ==
    Append(context_for_llm, [type |-> source_type, content |-> content])

\* A plausible slip: the is_enabled check left out, the loop always runs.
RehydratesAlways(is_enabled) == TRUE

\* Whether the Rehydrate stage runs its loop: not when storage is disabled.
Rehydrates(is_enabled) == is_enabled

\* StorageService.download_file_as_stream: None when disabled or on a
\* ClientError, the stream otherwise; any other exception escapes.
\* fetch: what the S3 call does ("stream", "ClientError", "OtherError").
DownloadResult(is_enabled, fetch) ==
    IF ~is_enabled THEN "None"
    ELSE IF fetch = "stream" THEN "stream"
    ELSE IF fetch = "ClientError" THEN "None"
    ELSE "raise"

\* What the S3 call can do for an object name: a stream only if it is held.
FetchOutcomes(objects, key) ==
    IF key \in objects THEN {"stream", "ClientError", "OtherError"}
                       ELSE {"ClientError", "OtherError"}

\* A plausible slip: the model check left out, so generate_content is called
\* on None and raises.
GenerateResultUnguarded(hasModel, modelRaises) ==
    IF ~hasModel \/ modelRaises THEN [outcome |-> "raise", answer |-> None, called |-> TRUE]
    ELSE [outcome |-> "ok", answer |-> "generated", called |-> TRUE]

\* GenerativeService.generate_response: the sentinel without a model, else
\* the model's text, or its exception.
GenerateResult(hasModel, modelRaises) ==
    IF ~hasModel THEN [outcome |-> "ok", answer |-> NotConfigured, called |-> FALSE]
    ELSE IF modelRaises THEN [outcome |-> "raise", answer |-> None, called |-> TRUE]
    ELSE [outcome |-> "ok", answer |-> "generated", called |-> TRUE]

\* A plausible slip: retrieved_context lists only the matches that have a
\* blob locator the loop accepts.
RECURSIVE RetrievedContextRehydratedOnly(_)
RetrievedContextRehydratedOnly(ms) ==
    IF ms = <<>> THEN <<>>
    ELSE (IF SkipsMatch(Head(ms).metadata) THEN <<>>
          ELSE <<[id |-> Head(ms).id, score |-> Head(ms).score,
                  metadata |-> Head(ms).metadata]>>)
         \o RetrievedContextRehydratedOnly(Tail(ms))

\* The retrieved_context list of the result record.
RECURSIVE RetrievedContext(_)
RetrievedContext(ms) ==
    IF ms = <<>> THEN <<>>
    ELSE <<[id |-> Head(ms).id, score |-> Head(ms).score, metadata |-> Head(ms).metadata]>>
         \o RetrievedContext(Tail(ms))

\* A plausible slip: a failed index query is tried again.
NextStageRetriesQuery(stage, ok) ==
    IF ~ok THEN (IF stage = "retrieve" THEN "retrieve" ELSE "failed")
    ELSE CASE stage = "embed" -> "retrieve"
           [] stage = "retrieve" -> "rehydrate"
           [] stage = "rehydrate" -> "generate"
           [] stage = "generate" -> "done"

\* The statement order of run_pipeline: where a run goes when the work of a
\* stage has returned (ok) or raised; nothing is caught, nothing is retried.
NextStage(stage, ok) ==
    IF ~ok THEN "failed"
    ELSE CASE stage = "embed" -> "retrieve"
           [] stage = "retrieve" -> "rehydrate"
           [] stage = "rehydrate" -> "generate"
           [] stage = "generate" -> "done"

\* A plausible slip: a run that retrieved nothing answers nothing.
ResultRecordNoAnswerOnEmpty(query, final_answer, search_results) ==
    [query |-> query,
     answer |-> IF search_results = <<>> THEN None ELSE final_answer,
     retrieved_context |-> RetrievedContext(search_results)]

\* The result record run_pipeline returns.
ResultRecord(query, final_answer, search_results) ==
    [query |-> query, answer |-> final_answer,
     retrieved_context |-> RetrievedContext(search_results)]

\* ------------------------------------------------------------------ state
VARIABLES
    env,        \* the environment of construction
    ctor,       \* where __init__ is, and what it has done so far
    index,      \* which variant self.index is: "unbound", "remote" or "memory"
    store,      \* the bound index's entries, in insertion order
    upsertLog,  \* per id (1..n), the arguments of the upsert call that made it
    lastOp,     \* the last service/index call and what it returned
    storage,    \* StorageService: is_enabled, and the object names the bucket holds
    generative, \* GenerativeService: whether self.model is set
    run,        \* the pipeline run in progress, or the last one
    threads,    \* per thread calling the index directly: where its call is
    writeLog    \* the dict assignments made by those threads, in the order made

vars == <<env, ctor, index, store, upsertLog, lastOp, storage, generative, run,
          threads, writeLog>>
serviceVars == <<env, ctor, index, store, upsertLog, lastOp>>
pipelineVars == <<storage, generative, run>>
threadVars == <<threads, writeLog>>

\* Threads that call the shared index's methods directly: two that upsert
\* and one that queries.
Writers == {"w1", "w2"}
Readers == {"r1"}
Threads == Writers \cup Readers

\* A thread outside any call.
IdleThread == [pc |-> "idle", vectors |-> <<>>, pos |-> 0, sub |-> 0,
               filter_query |-> <<>>, top_k |-> 0, seen |-> <<>>,
               snapshot |-> <<>>, matches |-> <<>>]

\* No thread is calling the index directly.
ThreadsQuiet ==
    /\ threads = [t \in Threads |-> IdleThread]
    /\ writeLog = <<>>

\* __init__ before its first statement.
CtorStart == [pc |-> "client", pinecone_client |-> "None", existing |-> FALSE,
              created |-> "none", via |-> "none", handleTried |-> FALSE,
              remoteHandle |-> FALSE]

\* __init__ returned, with a given client and handle.
CtorDone(client, kind) ==
    [CtorStart EXCEPT !.pc = "done", !.pinecone_client = client, !.existing = TRUE,
                      !.created = "skipped", !.handleTried = TRUE,
                      !.remoteHandle = (kind = "remote")]

\* The environment of a deployment with a key and the new client library.
EnvWithKey == [pinecone |-> "new", api_key |-> TRUE, serverless |-> TRUE,
               env_region |-> "unset", aws_region |-> "aws"]

\* No pipeline run yet.
NoRun == [stage |-> "idle", query |-> None, kb_type |-> None, context_id |-> None,
          query_vector |-> None, search_results |-> <<>>, pos |-> 0,
          context_for_llm |-> <<>>, calls |-> <<>>, generator_context |-> None,
          result |-> None, error |-> None]

\* A process whose storage and generator are configured, holding no blob.
PipelineQuiet ==
    /\ storage = [is_enabled |-> TRUE, objects |-> {}]
    /\ generative = TRUE
    /\ run = NoRun

NoOp == [op |-> "none", kb_type |-> None, context_id |-> None, top_k |-> 0,
         vector |-> None, filter |-> <<>>, outcome |-> "none", issued |-> FALSE,
         matches |-> <<>>, id |-> 0, before |-> <<>>,
         object_name |-> <<>>, uploaded |-> FALSE]

\* uuid4: an id no stored entry has.
FreshId == Len(upsertLog) + 1

\* After construction: self.index is one of the two variants, holding nothing.
Init ==
    /\ index \in {"memory", "remote"}
    /\ env = EnvWithKey
    /\ ctor = CtorDone(IF index = "remote" THEN "real" ELSE "adapter", index)
    /\ store = <<>>
    /\ upsertLog = <<>>
    /\ lastOp = NoOp
    /\ PipelineQuiet
    /\ ThreadsQuiet

\* A call of VectorDBService.upsert.
Upsert(item, kb_type, context_id) ==
    /\ index \in {"memory", "remote"}
    /\ Len(store) < MaxEntries
    /\ LET r == ServiceUpsert(index, store, FreshId, item.vector, kb_type,
                              item.source_type, item.source_id, context_id)
       IN /\ store' = r.store
          /\ upsertLog' = IF r.outcome = "ok"
                          THEN Append(upsertLog, [kb_type |-> kb_type, context_id |-> context_id,
                                                  source_id |-> item.source_id])
                          ELSE upsertLog
          /\ lastOp' = [NoOp EXCEPT !.op = "upsert", !.kb_type = kb_type,
                                    !.context_id = context_id, !.vector = item.vector,
                                    !.outcome = r.outcome, !.id = r.id, !.before = store]
    /\ UNCHANGED <<env, ctor, index, storage, generative, run, threadVars>>

\* A call of VectorDBService.query.
Query(vector, kb_type, context_id, top_k) ==
    /\ index \in {"memory", "remote"}
    /\ LET r == ServiceQuery(index, store, vector, kb_type, context_id, top_k)
       IN lastOp' = [NoOp EXCEPT !.op = "query", !.kb_type = kb_type,
                                 !.context_id = context_id, !.top_k = top_k,
                                 !.vector = vector, !.outcome = r.outcome,
                                 !.issued = r.issued, !.matches = r.matches,
                                 !.filter = r.filter, !.before = store]
    /\ UNCHANGED <<env, ctor, index, store, upsertLog, pipelineVars, threadVars>>

Next ==
    \/ \E item \in Items, sc \in ScopeArgs : Upsert(item, sc[1], sc[2])
    \/ \E v \in QueryVectors, sc \in ScopeArgs, k \in TopKs : Query(v, sc[1], sc[2], k)

Spec == Init /\ [][Next]_vars


\* ------------------------------------------------- the index used directly
\* Metadata a direct caller of _InMemoryIndex.upsert stores: what the service
\* builds, and one dictionary without a context_id key.
IndexMetas ==
    { UpsertMetadata(GKB, "text", BlobT1, None),
      UpsertMetadata(SKB, "text", BlobT1, "a@x"),
      UpsertMetadata(SKB, "text", BlobT1, "b@x"),
      [kb_type |-> SKB] }

\* Filters a direct caller passes: the service's, and the empty one.
IndexFilters == {QueryFilter(sc[1], sc[2]) : sc \in ScopeArgs} \cup {<<>>}

\* Ids a direct caller may write under (the same id may be written again).
IndexIds == 1 .. MaxEntries

InitIndex ==
    /\ index = "memory"
    /\ env = EnvWithKey
    /\ ctor = CtorDone("adapter", "memory")
    /\ store = <<>>
    /\ upsertLog = <<>>
    /\ lastOp = NoOp
    /\ PipelineQuiet
    /\ ThreadsQuiet

\* _InMemoryIndex.upsert([(vid, vec, meta)])
IndexUpsert(vid, vec, meta) ==
    /\ store' = InMemoryUpsert(store, vid, vec, meta)
    /\ lastOp' = [NoOp EXCEPT !.op = "index_upsert", !.id = vid, !.vector = vec,
                              !.outcome = "ok", !.before = store]
    /\ UNCHANGED <<env, ctor, index, upsertLog, pipelineVars, threadVars>>

\* _InMemoryIndex.query(vector, filter_query, top_k)
IndexQuery(vector, filter_query, top_k) ==
    /\ lastOp' = [NoOp EXCEPT !.op = "index_query", !.vector = vector,
                              !.filter = filter_query, !.top_k = top_k,
                              !.outcome = "ok", !.issued = TRUE,
                              !.matches = InMemoryQuery(store, vector, filter_query, top_k),
                              !.before = store]
    /\ UNCHANGED <<env, ctor, index, store, upsertLog, pipelineVars, threadVars>>

NextIndex ==
    \/ \E vid \in IndexIds, meta \in IndexMetas : IndexUpsert(vid, "v1", meta)
    \/ \E f \in IndexFilters, k \in TopKs : IndexQuery("v1", f, k)

SpecIndex == InitIndex /\ [][NextIndex]_vars

\* ------------------------------------------------ construction, stepwise
InitConstruct ==
    /\ env \in Environments
    /\ ctor = CtorStart
    /\ index = "unbound"
    /\ store = <<>>
    /\ upsertLog = <<>>
    /\ lastOp = NoOp
    /\ PipelineQuiet
    /\ ThreadsQuiet

\* Lines 96-127: resolve the client, falling back to the in-memory adapter.
CreateClient(raises) ==
    /\ ctor.pc = "client"
    /\ (raises => ClientCallCanRaise(env))
    /\ ctor' = [ctor EXCEPT !.pc = "list", !.pinecone_client = ResolveClient(env, raises)]
    /\ UNCHANGED <<env, index, store, upsertLog, lastOp, pipelineVars, threadVars>>

\* Lines 133-143: list the indexes; a failure leaves the listing empty.
ListIndexes(listing) ==
    /\ ctor.pc = "list"
    /\ ctor' = [ctor EXCEPT !.pc = "create",
                            !.existing = ListingHasIndex(ctor.pinecone_client, listing)]
    /\ UNCHANGED <<env, index, store, upsertLog, lastOp, pipelineVars, threadVars>>

\* Lines 145-192: create the index when it is not listed; failures are logged.
CreateIndex(first, second) ==
    /\ ctor.pc = "create"
    /\ IF ctor.existing
       THEN ctor' = [ctor EXCEPT !.pc = "handle", !.created = "skipped"]
       ELSE LET r == CreateResult(env, ctor.pinecone_client, first, second)
            IN ctor' = [ctor EXCEPT !.pc = IF r.raised THEN "raised" ELSE "handle",
                                    !.created = r.created, !.via = r.via]
    /\ UNCHANGED <<env, index, store, upsertLog, lastOp, pipelineVars, threadVars>>

\* Lines 194-212: obtain the index object, or bind an in-memory index.
AcquireHandle(raises) ==
    /\ ctor.pc = "handle"
    /\ LET r == HandleResult(ctor.pinecone_client, raises)
       IN /\ ctor' = [ctor EXCEPT !.pc = IF r.raised THEN "raised" ELSE "done",
                                  !.handleTried = TRUE,
                                  !.remoteHandle = (ctor.pinecone_client = "real" /\ ~raises)]
          /\ index' = r.index
    /\ UNCHANGED <<env, store, upsertLog, lastOp, pipelineVars, threadVars>>

NextConstruct ==
    \/ \E raises \in BOOLEAN : CreateClient(raises)
    \/ \E listing \in {"present", "absent", "raise"} : ListIndexes(listing)
    \/ \E first \in {"ok", "TypeError", "raise"}, second \in {"ok", "raise"} :
          CreateIndex(first, second)
    \/ \E raises \in BOOLEAN : AcquireHandle(raises)

SpecConstruct == InitConstruct /\ [][NextConstruct]_vars

\* ------------------------------------------------------ process start-up
\* Importing the services: core.config builds the module-level settings,
\* then services.vector_db builds the module-level vector_db_service.
\* key_in_env: whether PINECONE_API_KEY is defined at all (in the process
\* environment or the .env file); api_key: whether it is defined and
\* non-empty. The other required field, GOOGLE_API_KEY, is taken as defined.
StartupEnvironments ==
    LET all == { [pinecone |-> e.pinecone, api_key |-> e.api_key,
                  serverless |-> e.serverless, env_region |-> e.env_region,
                  aws_region |-> e.aws_region, key_in_env |-> k]
                    : e \in Environments, k \in BOOLEAN }
    IN {e \in all : e.api_key => e.key_in_env}

\* settings = Settings(): PINECONE_API_KEY is declared `str` with no default,
\* so a missing value fails validation; an empty string is a valid str.
SettingsResult(e) == IF e.key_in_env THEN "ok" ELSE "ValidationError"

InitStartup ==
    /\ env \in StartupEnvironments
    /\ ctor = [CtorStart EXCEPT !.pc = "settings"]
    /\ index = "unbound"
    /\ store = <<>>
    /\ upsertLog = <<>>
    /\ lastOp = NoOp
    /\ PipelineQuiet
    /\ ThreadsQuiet

\* core/config.py line 39, run by the first import of the settings module.
LoadSettings ==
    /\ ctor.pc = "settings"
    /\ ctor' = [ctor EXCEPT !.pc = IF SettingsResult(env) = "ok"
                                   THEN "client" ELSE "settings_error"]
    /\ UNCHANGED <<env, index, store, upsertLog, lastOp, pipelineVars, threadVars>>

NextStartup ==
    \/ LoadSettings
    \/ \E raises \in BOOLEAN : CreateClient(raises)
    \/ \E listing \in {"present", "absent", "raise"} : ListIndexes(listing)
    \/ \E first \in {"ok", "TypeError", "raise"}, second \in {"ok", "raise"} :
          CreateIndex(first, second)
    \/ \E raises \in BOOLEAN : AcquireHandle(raises)

SpecStartup == InitStartup /\ [][NextStartup]_vars

\* ------------------------------------------------------ pipeline runs
\* What the pipeline's index holds: text and image blobs in the bucket, an
\* entry whose locator is no s3:// URI, and one that is neither text nor image.
PipeItems ==
    { [vector |-> "v1", source_type |-> "text",  source_id |-> S3Uri(Bucket, TextObject)],
      [vector |-> "v2", source_type |-> "image", source_id |-> S3Uri(Bucket, ImageObject)],
      [vector |-> "v1", source_type |-> "text",  source_id |-> BlobT1],
      [vector |-> "v2", source_type |-> "pdf",   source_id |-> S3Uri(Bucket, ImageObject)] }
PipeScopes == {<<GKB, None>>, <<SKB, "a@x">>}
Queries == {"q1"}
ObjectNames == {TextObject, ImageObject}

InitPipeline ==
    /\ index \in {"memory", "remote"}
    /\ env = EnvWithKey
    /\ ctor = CtorDone(IF index = "remote" THEN "real" ELSE "adapter", index)
    /\ store = <<>>
    /\ upsertLog = <<>>
    /\ lastOp = NoOp
    /\ storage \in [is_enabled : BOOLEAN, objects : {{}}]
    /\ generative \in BOOLEAN
    /\ run = NoRun
    /\ ThreadsQuiet

\* No request is being served (the handlers run one at a time on the event loop).
RunQuiet == run.stage \in {"idle", "done", "failed"}

\* VectorDBService.upsert, between runs.
PipelineUpsert(item, kb_type, context_id) ==
    /\ RunQuiet
    /\ Upsert(item, kb_type, context_id)

\* StorageService.upload_file(file_obj, object_name); uploads: whether the
\* S3 call succeeds (a ClientError otherwise).
PutObject(object_name, uploads) ==
    /\ RunQuiet
    /\ storage' = IF storage.is_enabled /\ uploads
                  THEN [storage EXCEPT !.objects = @ \cup {object_name}]
                  ELSE storage
    /\ UNCHANGED <<serviceVars, generative, run, threadVars>>

\* perform_query up to the call of run_pipeline: the context id is the
\* caller's e-mail for SKB, None otherwise.
StartRun(user, kb_type, query) ==
    /\ RunQuiet
    /\ run' = [NoRun EXCEPT !.stage = "embed", !.query = query, !.kb_type = kb_type,
                            !.context_id = IF kb_type = SKB THEN user ELSE None]
    /\ UNCHANGED <<serviceVars, storage, generative, threadVars>>

\* Stage 1: embedding_service.create_text_embedding(query).
EmbedQuery(raises) ==
    /\ run.stage = "embed"
    /\ LET e == EmbedOutcome(run.query, raises)
       IN run' = IF e.outcome = "raise"
                 THEN [run EXCEPT !.stage = NextStage("embed", FALSE), !.error = "embed",
                                  !.calls = Append(@, <<"embed">>)]
                 ELSE [run EXCEPT !.stage = NextStage("embed", TRUE),
                                  !.query_vector = e.query_vector,
                                  !.calls = Append(@, <<"embed">>)]
    /\ UNCHANGED <<serviceVars, storage, generative, threadVars>>

\* Stage 2: vector_db_service.query(query_vector, kb_type, context_id, top_k=3).
Retrieve ==
    /\ run.stage = "retrieve"
    /\ LET r == ServiceQuery(index, store, run.query_vector, run.kb_type,
                             run.context_id, PipelineTopK)
       IN run' = IF r.outcome = "ok"
                 THEN [run EXCEPT !.stage = NextStage("retrieve", TRUE),
                                  !.search_results = r.matches,
                                  !.pos = 1, !.calls = Append(@, <<"query">>)]
                 ELSE [run EXCEPT !.stage = NextStage("retrieve", FALSE), !.error = "query",
                                  !.calls = Append(@, <<"query">>)]
    /\ UNCHANGED <<serviceVars, storage, generative, threadVars>>

\* Stage 3 with storage disabled: a warning, no loop.
SkipRehydrate ==
    /\ run.stage = "rehydrate"
    /\ ~Rehydrates(storage.is_enabled)
    /\ run' = [run EXCEPT !.stage = NextStage("rehydrate", TRUE)]
    /\ UNCHANGED <<serviceVars, storage, generative, threadVars>>

\* Stage 3, one iteration of the loop over search_results.
RehydrateItem(fetch, decodeRaises) ==
    /\ run.stage = "rehydrate"
    /\ Rehydrates(storage.is_enabled)
    /\ run.pos <= Len(run.search_results)
    /\ LET metadata == run.search_results[run.pos].metadata
           source_type == MetaGet(metadata, "source_type")
           key == ObjectKeyOf(metadata)
           got == DownloadResult(storage.is_enabled, fetch)
           fetched == [run EXCEPT !.calls = Append(@, <<"fetch", key, got>>)]
       IN IF SkipsMatch(metadata)
          THEN /\ fetch = "ClientError" /\ ~decodeRaises
               /\ run' = [run EXCEPT !.pos = @ + 1]
          ELSE /\ fetch \in FetchOutcomes(storage.objects, key)
               /\ (decodeRaises => got = "stream" /\ source_type \in {"image", "text"})
               /\ run' =
                    IF got = "raise"
                    THEN [fetched EXCEPT !.stage = NextStage("rehydrate", FALSE),
                                         !.error = "fetch"]
                    ELSE IF got = "None"
                    THEN [fetched EXCEPT !.pos = @ + 1]
                    ELSE IF source_type \in {"image", "text"}
                    THEN IF decodeRaises
                         THEN [fetched EXCEPT !.stage = NextStage("rehydrate", FALSE),
                                              !.error = "decode"]
                         ELSE [fetched EXCEPT !.pos = @ + 1,
                                  !.context_for_llm = AddContextItem(@, source_type, key)]
                    ELSE [fetched EXCEPT !.pos = @ + 1]
    /\ UNCHANGED <<serviceVars, storage, generative, threadVars>>

\* Stage 3, the loop is exhausted.
FinishRehydrate ==
    /\ run.stage = "rehydrate"
    /\ Rehydrates(storage.is_enabled)
    /\ run.pos > Len(run.search_results)
    /\ run' = [run EXCEPT !.stage = NextStage("rehydrate", TRUE)]
    /\ UNCHANGED <<serviceVars, storage, generative, threadVars>>

\* Stage 4 and the result record.
Generate(modelRaises) ==
    /\ run.stage = "generate"
    /\ (modelRaises => generative)
    /\ LET g == GenerateResult(generative, modelRaises)
           called == [run EXCEPT !.calls = Append(@, <<"generate">>),
                                 !.generator_context = run.context_for_llm]
       IN run' = IF g.outcome = "ok"
                 THEN [called EXCEPT !.stage = NextStage("generate", TRUE),
                                     !.result = ResultRecord(run.query, g.answer,
                                                            run.search_results)]
                 ELSE [called EXCEPT !.stage = NextStage("generate", FALSE),
                                     !.error = "generate"]
    /\ UNCHANGED <<serviceVars, storage, generative, threadVars>>

NextPipeline ==
    \/ \E item \in PipeItems, sc \in PipeScopes : PipelineUpsert(item, sc[1], sc[2])
    \/ \E o \in ObjectNames, uploads \in BOOLEAN : PutObject(o, uploads)
    \/ \E u \in Users, kb \in KBTypes, q \in Queries : StartRun(u, kb, q)
    \/ \E raises \in BOOLEAN : EmbedQuery(raises)
    \/ Retrieve
    \/ SkipRehydrate
    \/ \E fetch \in {"stream", "ClientError", "OtherError"}, decodeRaises \in BOOLEAN :
          RehydrateItem(fetch, decodeRaises)
    \/ FinishRehydrate
    \/ \E modelRaises \in BOOLEAN : Generate(modelRaises)

SpecPipeline == InitPipeline /\ [][NextPipeline]_vars

\* ------------------------------------- concurrent calls on the shared index
\* Threads call upsert and query of the one _InMemoryIndex the module-level
\* vector_db_service holds. A step is what the interpreter runs without
\* switching threads: one dict assignment, one list(self._store.items()),
\* one iteration of a loop over thread-local data.

\* The (vid, vec, meta) tuples a thread upserts.
ThreadTuples ==
    { [id |-> vid, vector |-> "v1", metadata |-> UpsertMetadata(GKB, "text", BlobT1, None)]
        : vid \in IndexIds }
    \cup
    { [id |-> vid, vector |-> "v2", metadata |-> UpsertMetadata(SKB, "text", BlobT1, "a@x")]
        : vid \in IndexIds }
\* The vectors argument of a call: one tuple, as VectorDBService.upsert passes.
ThreadVectorLists == {<<tp>> : tp \in ThreadTuples}
ThreadFilters == {<<>>, [kb_type |-> GKB]}
ThreadTopKs == {1, MaxEntries}

\* Dict assignments the calls in progress have yet to make, and the most
\* there may be in a checked run.
PendingWrites ==
    Cardinality({t \in Threads : threads[t].pc = "store"})
MaxWrites == MaxEntries

InitThreads ==
    /\ index = "memory"
    /\ env = EnvWithKey
    /\ ctor = CtorDone("adapter", "memory")
    /\ store = <<>>
    /\ upsertLog = <<>>
    /\ lastOp = NoOp
    /\ PipelineQuiet
    /\ ThreadsQuiet

\* Thread t enters _InMemoryIndex.upsert(vectors).
UpsertCall(t, vectors) ==
    /\ threads[t].pc \in {"idle", "returned"}
    /\ Len(writeLog) + PendingWrites < MaxWrites
    /\ threads' = [threads EXCEPT ![t] =
                      [IdleThread EXCEPT !.pc = "store", !.vectors = vectors,
                                         !.pos = 1, !.sub = 1]]
    /\ UNCHANGED <<serviceVars, pipelineVars, writeLog>>

\* Line 23 for the tuple at pos: the next assignment to self._store[vid].
UpsertStore(t) ==
    /\ threads[t].pc = "store"
    /\ threads[t].pos <= Len(threads[t].vectors)
    /\ LET tp == threads[t].vectors[threads[t].pos]
           steps == StoreSteps(tp.vector, tp.metadata)
           last == threads[t].sub = Len(steps)
       IN /\ store' = DictSetItem(store, tp.id, steps[threads[t].sub])
          /\ writeLog' = IF last THEN Append(writeLog, tp) ELSE writeLog
          /\ threads' = [threads EXCEPT ![t].sub = IF last THEN 1 ELSE @ + 1,
                                         ![t].pos = IF last THEN @ + 1 ELSE @]
    /\ UNCHANGED <<env, ctor, index, upsertLog, lastOp, pipelineVars>>

\* upsert's loop is exhausted: the call returns.
UpsertReturn(t) ==
    /\ threads[t].pc = "store"
    /\ threads[t].pos > Len(threads[t].vectors)
    /\ threads' = [threads EXCEPT ![t] = IdleThread]
    /\ UNCHANGED <<serviceVars, pipelineVars, writeLog>>

\* Thread t enters _InMemoryIndex.query(vector, filter_query, top_k).
QueryCall(t, filter_query, top_k) ==
    /\ threads[t].pc \in {"idle", "returned"}
    /\ threads' = [threads EXCEPT ![t] =
                      [IdleThread EXCEPT !.pc = "snapshot",
                                         !.filter_query = filter_query, !.top_k = top_k]]
    /\ UNCHANGED <<serviceVars, pipelineVars, writeLog>>

\* Line 31: list(self._store.items())[:top_k], the loop's iterable.
QuerySnapshot(t) ==
    /\ threads[t].pc = "snapshot"
    /\ threads' = [threads EXCEPT ![t].pc = "loop", ![t].seen = store,
                                  ![t].snapshot = PySlice(store, threads[t].top_k),
                                  ![t].pos = 1]
    /\ UNCHANGED <<serviceVars, pipelineVars, writeLog>>

\* Lines 32-43: one iteration over the copied list.
QueryLoop(t) ==
    /\ threads[t].pc = "loop"
    /\ threads[t].pos <= Len(threads[t].snapshot)
    /\ LET item == threads[t].snapshot[threads[t].pos]
           passes == FilterMatches(ItemMetadata(item), threads[t].filter_query)
           match == [id |-> item.id, score |-> 1, metadata |-> ItemMetadata(item)]
       IN threads' = [threads EXCEPT ![t].pos = @ + 1,
                                     ![t].matches = IF passes THEN Append(@, match) ELSE @]
    /\ UNCHANGED <<serviceVars, pipelineVars, writeLog>>

\* Line 44: the loop is exhausted, the matches are returned.
QueryReturn(t) ==
    /\ threads[t].pc = "loop"
    /\ threads[t].pos > Len(threads[t].snapshot)
    /\ threads' = [threads EXCEPT ![t].pc = "returned"]
    /\ UNCHANGED <<serviceVars, pipelineVars, writeLog>>

NextThreads ==
    \/ \E t \in Writers, vectors \in ThreadVectorLists : UpsertCall(t, vectors)
    \/ \E t \in Writers : UpsertStore(t)
    \/ \E t \in Writers : UpsertReturn(t)
    \/ \E t \in Readers, f \in ThreadFilters, k \in ThreadTopKs : QueryCall(t, f, k)
    \/ \E t \in Readers : QuerySnapshot(t)
    \/ \E t \in Readers : QueryLoop(t)
    \/ \E t \in Readers : QueryReturn(t)

SpecThreads == InitThreads /\ [][NextThreads]_vars

\* ------------------------------------------------------------ ingestion
\* The two ingestion paths: the /embeddings/ handler create_embedding and the
\* bulk tool's process_pdf, one extracted item at a time. Object names are
\* token sequences; a file name is whatever the caller (or the PDF's path)
\* gives, so it may hold a "#".
TextNames == { <<"h1.txt">> }
ImageFileNames == { <<"scan", "#", "1.png">>, <<>> }
PdfImageNames == { <<"doc_0_h.png">> }

\* The runs explored stop once this many blobs are stored.
MaxBlobs == MaxEntries

\* image.filename or 'unknown'
FileNameOf(filename) == IF filename = <<>> THEN <<"unknown">> ELSE filename

\* f"text/{context_id or 'gkb'}/{...}" and f"images/{context_id or 'gkb'}/{...}"
ObjectNameOf(prefix, context_id, name) ==
    <<prefix, "/", IF Falsy(context_id) THEN "gkb" ELSE context_id, "/">> \o name

\* StorageService.upload_file: False when disabled or on a ClientError, True
\* after the upload; any other exception escapes.
\* uploads: what the S3 call does ("ok", "ClientError", "OtherError").
UploadResult(is_enabled, uploads) ==
    IF ~is_enabled THEN "False"
    ELSE IF uploads = "ok" THEN "True"
    ELSE IF uploads = "ClientError" THEN "False"
    ELSE "raise"

\* The log entry of an ingested index entry: the upsert's arguments and the
\* object name its blob was uploaded under.
IngestLogEntry(kb_type, context_id, source_id, object_name) ==
    [kb_type |-> kb_type, context_id |-> context_id, source_id |-> source_id,
     object_name |-> object_name]

InitIngest ==
    /\ index \in {"memory", "remote"}
    /\ env = EnvWithKey
    /\ ctor = CtorDone(IF index = "remote" THEN "real" ELSE "adapter", index)
    /\ store = <<>>
    /\ upsertLog = <<>>
    /\ lastOp = NoOp
    /\ storage \in [is_enabled : BOOLEAN, objects : {{}}]
    /\ generative = TRUE
    /\ run = NoRun
    /\ ThreadsQuiet

\* create_embedding, lines 41-80: the object name and locator, the upload
\* (a falsy result or an exception ends the request with an HTTP error), the
\* embedding, the upsert.
CreateEmbedding(user, kb_type, source_type, name, uploads, embedRaises) ==
    /\ Len(store) < MaxEntries
    /\ Cardinality(storage.objects) < MaxBlobs
    /\ LET context_id == IF kb_type = SKB THEN user ELSE None
           object_name == IF source_type = "text"
                          THEN ObjectNameOf("text", context_id, name)
                          ELSE ObjectNameOf("images", context_id, FileNameOf(name))
           source_id == S3Uri(Bucket, object_name)
           up == UploadResult(storage.is_enabled, uploads)
           vec == IF source_type = "text" THEN "v1" ELSE "v2"
           r == ServiceUpsert(index, store, FreshId, vec, kb_type, source_type,
                              source_id, context_id)
           written == up = "True" /\ ~embedRaises /\ r.outcome = "ok"
       IN /\ storage' = IF up = "True"
                        THEN [storage EXCEPT !.objects = @ \cup {object_name}]
                        ELSE storage
          /\ store' = IF written THEN r.store ELSE store
          /\ upsertLog' = IF written
                          THEN Append(upsertLog, IngestLogEntry(kb_type, context_id,
                                                                source_id, object_name))
                          ELSE upsertLog
          /\ lastOp' = [NoOp EXCEPT !.op = "create_embedding", !.kb_type = kb_type,
                                    !.context_id = context_id, !.vector = vec,
                                    !.outcome = IF written THEN "ok" ELSE "HTTP500",
                                    !.id = IF written THEN r.id ELSE 0,
                                    !.before = store, !.object_name = object_name,
                                    !.uploaded = (up = "True")]
    /\ UNCHANGED <<env, ctor, index, generative, run, threadVars>>

\* process_pdf for one extracted item (the text, or one image): nothing when
\* storage is disabled; else the upload, whose result is not looked at, the
\* embedding, the upsert under GKB and "gkb_default". The tool is a process
\* of its own, so it shares the index with the service only when the index
\* is the remote one.
ProcessPdfItem(source_type, name, uploads, embedRaises) ==
    /\ index = "remote"
    /\ Len(store) < MaxEntries
    /\ Cardinality(storage.objects) < MaxBlobs
    /\ LET object_name == ObjectNameOf(IF source_type = "text" THEN "text" ELSE "images",
                                       None, name)
           s3_uri == S3Uri(Bucket, object_name)
           up == UploadResult(storage.is_enabled, uploads)
           vec == IF source_type = "text" THEN "v1" ELSE "v2"
           r == ServiceUpsert(index, store, FreshId, vec, GKB, source_type,
                              s3_uri, "gkb_default")
           written == storage.is_enabled /\ up # "raise" /\ ~embedRaises /\ r.outcome = "ok"
       IN /\ storage' = IF up = "True"
                        THEN [storage EXCEPT !.objects = @ \cup {object_name}]
                        ELSE storage
          /\ store' = IF written THEN r.store ELSE store
          /\ upsertLog' = IF written
                          THEN Append(upsertLog, IngestLogEntry(GKB, "gkb_default",
                                                                s3_uri, object_name))
                          ELSE upsertLog
          /\ lastOp' = [NoOp EXCEPT !.op = "process_pdf", !.kb_type = GKB,
                                    !.context_id = "gkb_default", !.vector = vec,
                                    !.outcome = IF written THEN "ok" ELSE "aborted",
                                    !.id = IF written THEN r.id ELSE 0,
                                    !.before = store, !.object_name = object_name,
                                    !.uploaded = (up = "True")]
    /\ UNCHANGED <<env, ctor, index, generative, run, threadVars>>

NextIngest ==
    \/ \E user \in Users, kb_type \in KBTypes, uploads \in {"ok", "ClientError", "OtherError"},
          embedRaises \in BOOLEAN :
          \/ \E name \in TextNames :
                CreateEmbedding(user, kb_type, "text", name, uploads, embedRaises)
          \/ \E name \in ImageFileNames :
                CreateEmbedding(user, kb_type, "image", name, uploads, embedRaises)
    \/ \E uploads \in {"ok", "ClientError", "OtherError"}, embedRaises \in BOOLEAN :
          \/ \E name \in TextNames : ProcessPdfItem("text", name, uploads, embedRaises)
          \/ \E name \in PdfImageNames : ProcessPdfItem("image", name, uploads, embedRaises)

SpecIngest == InitIngest /\ [][NextIngest]_vars

\* ------------------------------------------------------------------ claims
\* Number of stored entries whose metadata passes a filter.
MatchingCount(st, filter) ==
    Cardinality({i \in 1..Len(st) : FilterMatches(st[i].metadata, filter)})

IsServiceQuery == lastOp.op = "query"

\* C1: a query with kbType=SKB and a non-empty contextId C2 never returns an
\* entry that was upserted with kbType=SKB and a contextId C1 different from C2.
C1_SkbContextIsolation ==
    (IsServiceQuery /\ lastOp.kb_type = SKB /\ ~Falsy(lastOp.context_id)) =>
        \A i \in 1..Len(lastOp.matches) :
            LET u == upsertLog[lastOp.matches[i].id]
            IN ~(u.kb_type = SKB /\ u.context_id # lastOp.context_id)

\* C1 witness: user a's SKB query returned a's entry although the store also
\* holds b's SKB entry whose vector is the query vector itself (more similar).
C1_Witness ==
    /\ IsServiceQuery /\ lastOp.kb_type = SKB /\ lastOp.context_id = "a@x"
    /\ lastOp.outcome = "ok"
    /\ Len(lastOp.matches) = 1
    /\ upsertLog[lastOp.matches[1].id].context_id = "a@x"
    /\ \E i \in 1..Len(store) :
          /\ upsertLog[store[i].id].kb_type = SKB
          /\ upsertLog[store[i].id].context_id = "b@x"
          /\ store[i].vector = lastOp.vector
          /\ store[IndexOfId(store, lastOp.matches[1].id)].vector # lastOp.vector

\* C2: a query with kbType=SKB (any contextId) never returns an entry upserted
\* with kbType=GKB, and a query with kbType=GKB never returns one upserted
\* with kbType=SKB.
C2_KbTypeSeparation ==
    IsServiceQuery =>
        \A i \in 1..Len(lastOp.matches) :
            upsertLog[lastOp.matches[i].id].kb_type = lastOp.kb_type

\* C2 witness: a GKB query returned an entry while an SKB entry is stored, and
\* the store holds entries of both kinds.
C2_Witness ==
    /\ IsServiceQuery /\ lastOp.kb_type = GKB /\ lastOp.outcome = "ok"
    /\ Len(lastOp.matches) = 1
    /\ lastOp.top_k >= Len(store)
    /\ \E i \in 1..Len(store) : upsertLog[store[i].id].kb_type = SKB

\* C3 (as claimed): VectorDBService.query with kbType=SKB and an empty or
\* absent contextId fails with ConfigurationError, returns no entries, and no
\* index query runs without a context_id constraint.
C3_SkbQueryNeedsContext ==
    (IsServiceQuery /\ lastOp.kb_type = SKB /\ Falsy(lastOp.context_id)) =>
        /\ lastOp.outcome = "ConfigurationError"
        /\ lastOp.matches = <<>>
        /\ (lastOp.issued => "context_id" \in DOMAIN lastOp.filter)

\* C4: VectorDBService.upsert with kbType=SKB and an empty or absent contextId
\* fails before any index write: the index is as before and no id is returned.
C4_SkbUpsertNeedsContext ==
    (lastOp.op = "upsert" /\ lastOp.kb_type = SKB /\ Falsy(lastOp.context_id)) =>
        /\ lastOp.outcome = "ValueError"
        /\ store = lastOp.before
        /\ Len(upsertLog) = Len(store)
        /\ lastOp.id = 0

\* C4 witness: a rejected SKB upsert on an index that already holds an entry.
C4_Witness ==
    /\ lastOp.op = "upsert" /\ lastOp.kb_type = SKB /\ lastOp.context_id = Empty
    /\ lastOp.outcome = "ValueError"
    /\ Len(store) = 1

\* C5 (as claimed): on the in-memory index, a GKB query with topK at least the
\* number of stored entries succeeds and returns every GKB entry upserted,
\* under its id and with its source_id.
C5_InMemoryRoundTrip ==
    (IsServiceQuery /\ index = "memory" /\ lastOp.kb_type = GKB
        /\ lastOp.top_k >= 1 /\ lastOp.top_k >= Len(store)) =>
        /\ lastOp.outcome = "ok"
        /\ \A id \in 1..Len(upsertLog) :
              upsertLog[id].kb_type = GKB =>
                 \E i \in 1..Len(lastOp.matches) :
                    /\ lastOp.matches[i].id = id
                    /\ lastOp.matches[i].metadata.source_id = upsertLog[id].source_id

\* C6 (as claimed): _InMemoryIndex.query with top_k >= 1 filters the full
\* store and returns min(top_k, number of matching entries) matches, each
\* matching the filter and scored 1.0.
C6_FilterThenCut ==
    (lastOp.op = "index_query" /\ lastOp.top_k >= 1) =>
        /\ Len(lastOp.matches) = Min(lastOp.top_k, MatchingCount(store, lastOp.filter))
        /\ \A i \in 1..Len(lastOp.matches) :
              /\ lastOp.matches[i].score = 1
              /\ FilterMatches(lastOp.matches[i].metadata, lastOp.filter)

\* C7 (as claimed): a query with topK = k >= 1 returns at most k results with
\* non-increasing scores, fewer than k only when fewer than k entries match.
C7_AtMostKSorted ==
    (lastOp.op \in {"index_query", "query"} /\ lastOp.outcome = "ok" /\ lastOp.top_k >= 1) =>
        /\ Len(lastOp.matches) <= lastOp.top_k
        /\ \A i \in 1..(Len(lastOp.matches) - 1) :
              lastOp.matches[i].score >= lastOp.matches[i + 1].score
        /\ (Len(lastOp.matches) < lastOp.top_k =>
              MatchingCount(store, lastOp.filter) < lastOp.top_k)

\* C8 (as claimed): VectorDBService.query rejects a topK of zero or below with
\* ValidationError, issuing no index query and returning no matches.
C8_TopKValidated ==
    (IsServiceQuery /\ lastOp.top_k <= 0) =>
        /\ lastOp.outcome = "ValidationError"
        /\ ~lastOp.issued
        /\ lastOp.matches = <<>>


\* C9: constructing VectorDBService never raises and always completes with
\* self.index bound; a failed index creation does not stop the handle from
\* being attempted; without a remote handle self.index is the in-memory one.
C9_ConstructionNeverRaises ==
    /\ ctor.pc # "raised"
    /\ (ctor.pc # "done" => ENABLED NextConstruct)
    /\ (ctor.pc = "done" =>
          /\ index \in {"remote", "memory"}
          /\ ctor.handleTried
          /\ (~ctor.remoteHandle => index = "memory"))
    /\ (ctor.pc \in {"handle", "done"} => ctor.created \in {"ok", "failed", "skipped"})

\* C9 witness: index creation failed, the handle was still attempted and
\* failed too, and construction ended on the in-memory index.
C9_Witness ==
    /\ ctor.pc = "done"
    /\ ctor.pinecone_client = "real"
    /\ ctor.created = "failed"
    /\ ctor.handleTried /\ ~ctor.remoteHandle
    /\ index = "memory"


\* Blob fetches attempted so far in the run.
FetchCalls == SelectSeq(run.calls, LAMBDA c : c[1] = "fetch")
GenerateCalls == SelectSeq(run.calls, LAMBDA c : c[1] = "generate")

\* C10: in a pipeline run with the blob store disabled no blob fetch is
\* attempted, the generator is never given a non-empty context, and a run that
\* obtained its SearchResult calls the generator once, with an empty context.
C10_DisabledStorageEmptyContext ==
    ~storage.is_enabled =>
        /\ FetchCalls = <<>>
        /\ run.context_for_llm = <<>>
        /\ (GenerateCalls # <<>> => run.generator_context = <<>>)
        /\ (run.stage = "done" =>
              /\ Len(GenerateCalls) = 1
              /\ run.generator_context = <<>>)

\* C10 witness: storage disabled, a run returned its result with two
\* retrieved matches, one of them an s3:// locator.
C10_Witness ==
    /\ ~storage.is_enabled
    /\ run.stage = "done"
    /\ Len(run.result.retrieved_context) = 2
    /\ \E i \in 1..2 : ~SkipsMatch(run.search_results[i].metadata)
    /\ run.generator_context = <<>>
    /\ Len(GenerateCalls) = 1


\* The retrieval stage of the run returned (with its SearchResult).
Retrieved ==
    \/ run.stage \in {"rehydrate", "generate", "done"}
    \/ run.stage = "failed" /\ run.error \in {"fetch", "decode", "generate"}

\* C11 (as claimed): a pipeline run whose retrieval returned zero matches
\* does not fail.
C11_ZeroMatchesNeverFails ==
    (Retrieved /\ run.search_results = <<>>) => run.stage # "failed"

\* C11 (amended): a run whose retrieval returned zero matches fetches no blob
\* and is never stopped before generation; the generator is called with an
\* empty context; only the generator's own exception can fail the run, and a
\* run that returns gives the original query, a non-null answer (generated or
\* the sentinel) and an empty retrieved_context.
C11_ZeroMatchesWellFormed ==
    (Retrieved /\ run.search_results = <<>>) =>
        /\ FetchCalls = <<>>
        /\ run.context_for_llm = <<>>
        /\ (run.stage = "rehydrate" => ENABLED (SkipRehydrate \/ FinishRehydrate))
        /\ (run.stage = "generate" => ENABLED Generate(FALSE))
        /\ (GenerateCalls # <<>> => run.generator_context = <<>>)
        /\ (run.stage = "failed" => run.error = "generate" /\ generative)
        /\ (run.stage = "done" =>
              /\ Len(GenerateCalls) = 1
              /\ run.result.query = run.query
              /\ run.result.answer \in {"generated", NotConfigured}
              /\ run.result.retrieved_context = <<>>)

\* C11 witness: with storage enabled and an entry of another scope stored, a
\* run retrieved nothing and returned its result with a generated answer.
C11_Witness ==
    /\ run.stage = "done"
    /\ storage.is_enabled /\ generative
    /\ Len(store) >= 1
    /\ run.search_results = <<>>
    /\ run.result.answer = "generated"
    /\ run.result.retrieved_context = <<>>


\* C12 (as claimed): with storage enabled, a rehydration failure of one item
\* (locator missing or unrecognized, the fetch failing, the fetched bytes not
\* decoding) excludes only that item: no run is failed by a fetch or a
\* decode, every match is visited before generation, and the generator is
\* called.
C12_RehydrationFailureIsolated ==
    storage.is_enabled =>
        /\ (run.stage = "failed" => run.error \notin {"fetch", "decode"})
        /\ (run.stage \in {"generate", "done"} =>
              run.pos = Len(run.search_results) + 1)
        /\ (run.stage = "done" => Len(GenerateCalls) = 1)


\* C13: with no model configured generate_response returns the fixed sentinel
\* without raising, whatever the query and the context list: no run fails in
\* generation, a run at the Generate stage can always complete, and every
\* result record returned carries the sentinel as its answer.
C13_UnconfiguredGeneratorSentinel ==
    ~generative =>
        /\ \A modelRaises \in BOOLEAN :
              /\ GenerateResult(generative, modelRaises).outcome = "ok"
              /\ GenerateResult(generative, modelRaises).answer = NotConfigured
        /\ (run.stage = "failed" => run.error # "generate")
        /\ (run.stage = "generate" => ENABLED Generate(FALSE))
        /\ (GenerateCalls # <<>> =>
              /\ run.stage = "done"
              /\ run.result.query = run.query
              /\ run.result.answer = NotConfigured)

\* C13 witness: without a model, a run whose generator was given a non-empty
\* context returned the sentinel.
C13_Witness ==
    /\ ~generative
    /\ run.stage = "done"
    /\ Len(run.generator_context) >= 1
    /\ run.result.answer = NotConfigured


\* C14: when the embedder fails in the Embed stage the run aborts with that
\* error: the step leaves the index as it was, and the aborted run has made
\* no index query, no blob fetch and no generator call and has no result.
C14_EmbedFailureAborts ==
    /\ []((run.stage = "failed" /\ run.error = "embed") =>
            /\ run.calls = << <<"embed">> >>
            /\ run.query_vector = None
            /\ run.search_results = <<>>
            /\ run.generator_context = None
            /\ run.result = None)
    /\ [][EmbedQuery(TRUE) =>
            /\ run'.stage = "failed" /\ run'.error = "embed"
            /\ store' = store /\ upsertLog' = upsertLog /\ index' = index
            /\ storage' = storage]_vars

\* C14 witness: a run aborted by the embedder while the index holds an entry
\* the query would have matched and the bucket holds its blob.
C14_Witness ==
    /\ run.stage = "failed" /\ run.error = "embed"
    /\ index = "remote"
    /\ storage.is_enabled /\ storage.objects # {}
    /\ \E i \in 1..Len(store) :
          FilterMatches(store[i].metadata, QueryFilter(run.kb_type, run.context_id))


\* C15: every result record a run returns holds the original query, the
\* generator's answer, and in retrieved_context exactly one (id, score,
\* metadata) element per match of the SearchResult, in SearchResult order,
\* however many matches the rehydration skipped.
C15_ResultRecordComplete ==
    /\ (run.stage # "done" => run.result = None)
    /\ (run.stage = "done" =>
          /\ DOMAIN run.result = {"query", "answer", "retrieved_context"}
          /\ run.result.query = run.query
          /\ run.result.answer = (IF generative THEN "generated" ELSE NotConfigured)
          /\ Len(run.result.retrieved_context) = Len(run.search_results)
          /\ \A i \in 1..Len(run.search_results) :
                /\ DOMAIN run.result.retrieved_context[i] = {"id", "score", "metadata"}
                /\ run.result.retrieved_context[i].id = run.search_results[i].id
                /\ run.result.retrieved_context[i].score = run.search_results[i].score
                /\ run.result.retrieved_context[i].metadata = run.search_results[i].metadata)

\* C15 witness: with storage enabled a run returned two matches in
\* retrieved_context although only one of them was rehydrated.
C15_Witness ==
    /\ run.stage = "done"
    /\ storage.is_enabled
    /\ Len(run.search_results) = 2
    /\ Len(run.generator_context) = 1
    /\ \E i \in 1..2 : SkipsMatch(run.search_results[i].metadata)
    /\ Len(run.result.retrieved_context) = 2


\* The writes logged so far for one id, in the order they were made.
WritesOf(vid) == SelectSeq(writeLog, LAMBDA w : w.id = vid)

\* C16: under every interleaving of concurrent upsert and query calls on the
\* shared in-memory index, each stored entry is exactly the last write of its
\* id, every match a query has collected carries the complete metadata of one
\* upsert of that id, no query is stopped short of returning, and what a
\* query returns is what a query run alone on the store it copied returns.
C16_ConcurrentIndexSafe ==
    /\ \A i \in 1..Len(store) :
          /\ WritesOf(store[i].id) # <<>>
          /\ store[i] = WritesOf(store[i].id)[Len(WritesOf(store[i].id))]
    /\ \A i \in 1..Len(writeLog) : IndexOfId(store, writeLog[i].id) # 0
    /\ \A t \in Readers :
          /\ \A i \in 1..Len(threads[t].matches) :
                LET m == threads[t].matches[i]
                IN /\ DOMAIN m = {"id", "score", "metadata"}
                   /\ DOMAIN m.metadata = {"kb_type", "source_type", "source_id", "context_id"}
                   /\ \E j \in 1..Len(writeLog) :
                         writeLog[j].id = m.id /\ writeLog[j].metadata = m.metadata
          /\ (threads[t].pc = "snapshot" => ENABLED QuerySnapshot(t))
          /\ (threads[t].pc = "loop" => ENABLED (QueryLoop(t) \/ QueryReturn(t)))
          /\ (threads[t].pc = "returned" =>
                threads[t].matches =
                    InMemoryQuery(threads[t].seen, "v1", threads[t].filter_query,
                                  threads[t].top_k))

\* C16 witness: a query returned an entry that another thread's upsert of the
\* same id replaced while the query was running, after two upserts of that id.
C16_Witness ==
    \E t \in Readers :
        /\ threads[t].pc = "returned"
        /\ Len(threads[t].matches) = 1
        /\ Len(WritesOf(threads[t].matches[1].id)) = 2
        /\ threads[t].matches[1].metadata = WritesOf(threads[t].matches[1].id)[1].metadata
        /\ store[IndexOfId(store, threads[t].matches[1].id)].metadata
              # threads[t].matches[1].metadata
        /\ \E w \in Writers : threads[w].pc = "store"


\* Calls of one kind made so far in the run.
CallsOf(kind) == SelectSeq(run.calls, LAMBDA c : c[1] = kind)

\* Position of a stage in the order of run_pipeline; a run that returned or
\* raised is past all of them.
StageRank(stage) ==
    CASE stage = "idle" -> 0
      [] stage = "embed" -> 1
      [] stage = "retrieve" -> 2
      [] stage = "rehydrate" -> 3
      [] stage = "generate" -> 4
      [] OTHER -> 5

\* The calls of a run are an embedder call, then at most one index query,
\* then blob fetches, then at most one generator call.
CallsInOrder ==
    \A i \in 1..Len(run.calls) :
        /\ (run.calls[i][1] = "embed" <=> i = 1)
        /\ (run.calls[i][1] = "query" <=> i = 2)
        /\ (run.calls[i][1] = "generate" => i = Len(run.calls) /\ i >= 3)
        /\ run.calls[i][1] \in {"embed", "query", "fetch", "generate"}

\* C17 (as claimed): in every run the calls occur in the order Embed,
\* Retrieve, Rehydrate, Generate, and a run that has ended has called the
\* embedder and the index query exactly once each.
C17_EachStageExactlyOnce ==
    /\ CallsInOrder
    /\ (run.stage \in {"done", "failed"} =>
          Len(CallsOf("embed")) = 1 /\ Len(CallsOf("query")) = 1)

\* C17 (amended): the calls of a run occur in the order Embed, Retrieve,
\* Rehydrate, Generate and no stage is re-entered; the embedder is called
\* once; the index query is called once when the embedder returned and not
\* at all when it raised; every blob fetch lies between the query and the
\* generator call; a run past Rehydrate calls the generator once, last.
C17_StagesInFixedOrder ==
    /\ [](/\ CallsInOrder
          /\ (StageRank(run.stage) >= 2 => Len(CallsOf("embed")) = 1)
          /\ (StageRank(run.stage) <= 2 => CallsOf("query") = <<>>)
          /\ (run.stage \in {"rehydrate", "generate", "done"} =>
                Len(CallsOf("query")) = 1 /\ run.query_vector # None)
          /\ (run.stage = "failed" =>
                Len(CallsOf("query")) = (IF run.error = "embed" THEN 0 ELSE 1))
          /\ (StageRank(run.stage) <= 4 => CallsOf("generate") = <<>>)
          /\ (run.stage = "done" \/ (run.stage = "failed" /\ run.error = "generate") =>
                /\ Len(CallsOf("generate")) = 1
                /\ run.calls[Len(run.calls)] = <<"generate">>)
          /\ (run.stage = "generate" => ENABLED Generate(FALSE)))
    /\ [][run' # run =>
            \/ RunQuiet /\ run'.stage = "embed" /\ run'.calls = <<>>
            \/ /\ ~RunQuiet
               /\ StageRank(run'.stage) >= StageRank(run.stage)
               /\ \/ run'.calls = run.calls
                  \/ Len(run'.calls) = Len(run.calls) + 1
                      /\ SubSeq(run'.calls, 1, Len(run.calls)) = run.calls]_vars

\* C17 witness: a run that returned after embedding, querying, two blob
\* fetches and the generator call, in that order.
C17_Witness ==
    /\ run.stage = "done"
    /\ Len(run.calls) = 5
    /\ run.calls[1] = <<"embed">> /\ run.calls[2] = <<"query">>
    /\ run.calls[3][1] = "fetch" /\ run.calls[4][1] = "fetch"
    /\ run.calls[5] = <<"generate">>


\* The matches the loop asks the blob store for: those with a source_id that
\* is an s3:// locator, in SearchResult order.
FetchedMatches ==
    SelectSeq(run.search_results,
              LAMBDA m : /\ "source_id" \in DOMAIN m.metadata
                         /\ m.metadata.source_id # <<>>
                         /\ StartsWithS3(m.metadata.source_id))

\* The context the claim describes, from the matches fetched and what each
\* fetch returned: one item per match that got a stream and is image or text.
RECURSIVE ContextOfFetches(_, _)
ContextOfFetches(ms, fetches) ==
    IF ms = <<>> \/ fetches = <<>> THEN <<>>
    ELSE (IF Head(fetches)[3] = "stream" /\ Head(ms).metadata.source_type \in {"image", "text"}
          THEN <<[type |-> Head(ms).metadata.source_type, content |-> Head(fetches)[2]]>>
          ELSE <<>>)
         \o ContextOfFetches(Tail(ms), Tail(fetches))

\* C18: the context given to the generator holds exactly one item for each
\* match whose source_id is a recognized storage URI, whose blob fetch
\* returned a stream and whose source_type is image or text, in SearchResult
\* order, typed by the match's source_type.
C18_ContextIsOrderedSubsequence ==
    run.generator_context # None =>
        /\ (storage.is_enabled => Len(FetchCalls) = Len(FetchedMatches))
        /\ (~storage.is_enabled => FetchCalls = <<>>)
        /\ run.generator_context = ContextOfFetches(FetchedMatches, FetchCalls)

\* C18 witness: the generator was given two items, a text and an image in the
\* order of their matches, and the bucket held both blobs.
C18_Witness ==
    /\ run.generator_context # None
    /\ Len(run.search_results) = 2
    /\ Len(run.generator_context) = 2
    /\ \A i \in 1..2 :
          run.generator_context[i].type = run.search_results[i].metadata.source_type
    /\ run.generator_context[1].type = "text"
    /\ run.generator_context[2].type = "image"


\* C19: a successful VectorDBService.upsert adds exactly one entry, under an
\* id no existing entry has, and returns that id; the entries stored before
\* are unchanged; the new entry holds the given vector and a metadata of
\* exactly the keys kb_type, source_type, source_id, context_id, with the
\* given kb_type (gkb or skb) and the given context id, or gkb_default when
\* the kb_type is GKB and no context id was given.
C19_UpsertAddsOneEntry ==
    (lastOp.op = "upsert" /\ lastOp.outcome = "ok") =>
        /\ Len(store) = Len(lastOp.before) + 1
        /\ SubSeq(store, 1, Len(lastOp.before)) = lastOp.before
        /\ LET new == store[Len(store)]
           IN /\ new.id = lastOp.id
              /\ \A i \in 1..Len(lastOp.before) : lastOp.before[i].id # new.id
              /\ new.vector = lastOp.vector
              /\ DOMAIN new.metadata = {"kb_type", "source_type", "source_id", "context_id"}
              /\ new.metadata.kb_type = lastOp.kb_type
              /\ new.metadata.kb_type \in {"gkb", "skb"}
              /\ new.metadata.source_id = upsertLog[new.id].source_id
              /\ new.metadata.context_id =
                    (IF lastOp.kb_type = GKB /\ Falsy(lastOp.context_id)
                     THEN "gkb_default" ELSE lastOp.context_id)

\* C19 witness: a GKB upsert without context id succeeded on an index that
\* held an SKB entry, which is still there beside the new gkb_default entry.
C19_Witness ==
    /\ lastOp.op = "upsert" /\ lastOp.outcome = "ok"
    /\ lastOp.kb_type = GKB /\ lastOp.context_id = None
    /\ Len(lastOp.before) = 1
    /\ lastOp.before[1].metadata.kb_type = SKB
    /\ Len(store) = 2 /\ store[1] = lastOp.before[1]
    /\ store[2].metadata.context_id = "gkb_default"


\* C20: for every (kb_type, context_id) upsert accepts, the metadata it
\* stores passes the filter query builds for the same pair: every stored
\* entry passes the filter of its own scope, a query's filter lets through
\* every entry written under the query's scope, and the remote index, asked
\* for as many entries as it holds, returns each of them.
C20_WriteAndReadSamePartition ==
    /\ \A i \in 1..Len(store) :
          LET u == upsertLog[store[i].id]
          IN FilterMatches(store[i].metadata, QueryFilter(u.kb_type, u.context_id))
    /\ IsServiceQuery =>
          \A i \in 1..Len(store) :
              LET u == upsertLog[store[i].id]
              IN (u.kb_type = lastOp.kb_type /\ u.context_id = lastOp.context_id) =>
                    /\ FilterMatches(store[i].metadata, lastOp.filter)
                    /\ (index = "remote" /\ lastOp.top_k >= Len(store) /\ lastOp.top_k >= 1 =>
                          \E j \in 1..Len(lastOp.matches) :
                              lastOp.matches[j].id = store[i].id)

\* C20 witness: an entry written under (GKB, a context id) and one written
\* under (SKB, that context id) are stored; the GKB query with the same
\* context id returned the first of them.
C20_Witness ==
    /\ IsServiceQuery /\ lastOp.outcome = "ok"
    /\ lastOp.kb_type = GKB /\ lastOp.context_id = "a@x"
    /\ Len(store) = 2
    /\ \E i, k \in 1..2 :
          /\ upsertLog[store[i].id].kb_type = GKB
          /\ upsertLog[store[i].id].context_id = "a@x"
          /\ upsertLog[store[k].id].kb_type = SKB
          /\ upsertLog[store[k].id].context_id = "a@x"
          /\ Len(lastOp.matches) = 1
          /\ lastOp.matches[1].id = store[i].id


\* C21: for kb_type GKB the filter query builds is exactly {kb_type: gkb},
\* whatever the context id: over the index content of every reachable state
\* GKB queries that differ only in the context id give the same outcome and
\* the same matches, and every entry upserted as GKB, under any context id,
\* passes the filter of every caller's GKB query.
C21_GkbFilterIgnoresContext ==
    /\ (IsServiceQuery /\ lastOp.kb_type = GKB) =>
          /\ lastOp.filter = [kb_type |-> "gkb"]
          /\ \A c \in ContextArgs :
                LET r == ServiceQuery(index, lastOp.before, lastOp.vector, GKB, c, lastOp.top_k)
                IN r.outcome = lastOp.outcome /\ r.matches = lastOp.matches
    /\ \A c1, c2 \in ContextArgs, k \in TopKs, v \in QueryVectors :
          ServiceQuery(index, store, v, GKB, c1, k) = ServiceQuery(index, store, v, GKB, c2, k)
    /\ \A i \in 1..Len(store), c \in ContextArgs :
          upsertLog[store[i].id].kb_type = GKB =>
              FilterMatches(store[i].metadata, QueryFilter(GKB, c))

\* C21 witness: a GKB query made without a context id returned both GKB
\* entries, one written without a context id and one written under a
\* caller's context id.
C21_Witness ==
    /\ IsServiceQuery /\ lastOp.outcome = "ok"
    /\ lastOp.kb_type = GKB /\ lastOp.context_id = None
    /\ Len(lastOp.matches) = 2
    /\ \E i, k \in 1..2 :
          /\ lastOp.matches[i].metadata.context_id = "gkb_default"
          /\ lastOp.matches[k].metadata.context_id = "a@x"
          /\ upsertLog[lastOp.matches[k].id].kb_type = GKB


\* C22 (as claimed): with no Pinecone credential (PINECONE_API_KEY not
\* defined, or empty) start-up completes: building the settings and the
\* module-level vector_db_service raises nothing, and the service is bound to
\* the in-memory index.
C22_StartsWithoutCredential ==
    ~env.api_key =>
        /\ ctor.pc \notin {"settings_error", "raised"}
        /\ (ctor.pc # "done" => ENABLED NextStartup)
        /\ (ctor.pc = "done" => index = "memory")


\* C23: every index entry written by an ingestion path (create_embedding,
\* process_pdf) has a source_id whose blob was stored before the entry was
\* upserted, and an ingestion step whose upload failed, or that found the
\* blob store disabled, creates no index entry.
C23_BlobStoredBeforeEntry ==
    /\ \A i \in 1..Len(store) :
          \E o \in storage.objects : S3Uri(Bucket, o) = store[i].metadata.source_id
    /\ (lastOp.op \in {"create_embedding", "process_pdf"} /\ ~lastOp.uploaded)
          => store = lastOp.before

\* C24: the source_id locator round-trips: every ingested entry's source_id is
\* recognized by the Rehydrate stage, and the object name that stage asks the
\* blob store for is the object name the blob was uploaded under.
C24_SourceIdRoundTrips ==
    \A i \in 1..Len(store) :
        /\ ~SkipsMatch(store[i].metadata)
        /\ ObjectKeyOf(store[i].metadata) = upsertLog[store[i].id].object_name

====
